---- MODULE Spec2Model ----
(***************************************************************************)
(* A model of the UPI payment QR service: the identifier validator and     *)
(* payment-string builder (app/services/upi_validator.py), the QR styling  *)
(* pipeline (app/services/qr_generator.py) and the three generation        *)
(* endpoints (app/api/qr_routes.py).                                       *)
(*                                                                         *)
(* A Python str is a sequence of one-character strings; None and a missing *)
(* optional value are the empty sequence <<>>, a present optional value v  *)
(* is <<v>>.  A float amount is an integer number of thousandths.          *)
(***************************************************************************)
EXTENDS Integers, Sequences, FiniteSets, TLC

VARIABLES fn, args, ret, pc, req, style, data, run, env, resp, flows, cache, clock, ledger,
          served

vars ==
    <<fn, args, ret, pc, req, style, data, run, env, resp, flows, cache, clock, ledger, served>>

unitVars == <<fn, args, ret>>

flowVars == <<pc, req, style, data, run, env, resp>>

rateVars == <<cache, clock, ledger, served>>

-----------------------------------------------------------------------------
(* Characters and strings                                                  *)

LowerSeq == <<"a","b","c","d","e","f","g","h","i","j","k","l","m",
              "n","o","p","q","r","s","t","u","v","w","x","y","z">>

UpperSeq == <<"A","B","C","D","E","F","G","H","I","J","K","L","M",
              "N","O","P","Q","R","S","T","U","V","W","X","Y","Z">>

DigitSeq == <<"0","1","2","3","4","5","6","7","8","9">>

Range(s) == {s[i] : i \in DOMAIN s}

Lower == Range(LowerSeq)

Upper == Range(UpperSeq)

Digit == Range(DigitSeq)

(* The one character of the model whose upper-case form is two characters  *)
(* long (U+00DF, whose str.upper() is "SS").                               *)
SharpS == "sharp-s"

(* str.upper() of one character, as a string.                              *)
CharUpper(c) ==
    IF c \in Lower
    THEN <<UpperSeq[CHOOSE i \in DOMAIN LowerSeq : LowerSeq[i] = c]>>
    ELSE IF c = SharpS THEN <<"S", "S">> ELSE <<c>>

RECURSIVE StrUpper(_)
StrUpper(s) == IF s = <<>> THEN <<>> ELSE CharUpper(Head(s)) \o StrUpper(Tail(s))

(* str.lower() of one character (only ASCII letters occur where it is used) *)
CharLower(c) ==
    IF c \in Upper
    THEN LowerSeq[CHOOSE i \in DOMAIN UpperSeq : UpperSeq[i] = c]
    ELSE c

StrLower(s) == [i \in DOMAIN s |-> CharLower(s[i])]

StartsWith(s, p) == Len(s) >= Len(p) /\ SubSeq(s, 1, Len(p)) = p

Drop(s, n) == SubSeq(s, n + 1, Len(s))

(* The least index at which p occurs in s, 0 when it does not: str.find + 1 *)
Find(s, p) ==
    LET hits == {i \in 1..(Len(s) - Len(p) + 1) : SubSeq(s, i, i + Len(p) - 1) = p}
    IN IF hits = {} THEN 0 ELSE CHOOSE i \in hits : \A j \in hits : i <= j

Contains(s, p) == Find(s, p) # 0

(* str.replace(old, new): left to right, non-overlapping                   *)
RECURSIVE Replace(_, _, _)
Replace(s, old, new) ==
    LET i == Find(s, old)
    IN IF i = 0 THEN s
       ELSE SubSeq(s, 1, i - 1) \o new \o Replace(Drop(s, i + Len(old) - 1), old, new)

(* str.split(sep): every piece, the empty ones included                    *)
RECURSIVE Split(_, _)
Split(s, sep) ==
    LET i == Find(s, sep)
    IN IF i = 0 THEN <<s>>
       ELSE <<SubSeq(s, 1, i - 1)>> \o Split(Drop(s, i + Len(sep) - 1), sep)

(* str.split(sep, 1): at most two pieces                                   *)
Split1(s, sep) ==
    LET i == Find(s, sep)
    IN IF i = 0 THEN <<s>>
       ELSE <<SubSeq(s, 1, i - 1), Drop(s, i + Len(sep) - 1)>>

(* Regex '$' without MULTILINE: the end of the string, or the position     *)
(* just before a newline that is the last character.                       *)
DollarEnds(s) ==
    {Len(s)} \cup (IF Len(s) > 0 /\ s[Len(s)] = "\n" THEN {Len(s) - 1} ELSE {})

AllIn(s, lo, hi, class) == \A k \in lo..hi : s[k] \in class

-----------------------------------------------------------------------------
(* Numbers as text                                                         *)

DigitChar(d) == DigitSeq[d + 1]

DigitVal(c) == (CHOOSE i \in DOMAIN DigitSeq : DigitSeq[i] = c) - 1

RECURSIVE NatStr(_)
NatStr(n) == IF n < 10 THEN <<DigitChar(n)>> ELSE NatStr(n \div 10) \o <<DigitChar(n % 10)>>

RECURSIVE DigitsVal(_)
DigitsVal(s) == IF s = <<>> THEN 0 ELSE DigitsVal(SubSeq(s, 1, Len(s) - 1)) * 10 + DigitVal(s[Len(s)])

-----------------------------------------------------------------------------
(* Amounts.  An amount is <<>> (None) or <<[kind, milli]>>: kind "float"   *)
(* for a Python float (what FastAPI and pydantic hand an endpoint), "int"  *)
(* for a Python int (what a direct caller may pass); milli is the value in *)
(* thousandths.                                                            *)

None == <<>>

Some(v) == <<v>>

Float(m) == Some([kind |-> "float", milli |-> m])

PyInt(n) == Some([kind |-> "int", milli |-> n * 1000])

Abs(n) == IF n < 0 THEN 0 - n ELSE n

(* The fraction digits of repr(float): three digits, trailing zeros        *)
(* dropped, at least one digit kept.                                       *)
FracStr(f) ==
    IF f = 0 THEN <<"0">>
    ELSE IF f % 100 = 0 THEN <<DigitChar(f \div 100)>>
    ELSE IF f % 10 = 0 THEN <<DigitChar(f \div 100), DigitChar((f \div 10) % 10)>>
    ELSE <<DigitChar(f \div 100), DigitChar((f \div 10) % 10), DigitChar(f % 10)>>

(* format(amount, '') as an f-string field makes it: repr of the float     *)
(* ("100.0", "0.5", "-1.0") or of the int ("100").                         *)
AmountStr(a) ==
    LET sign == IF a.milli < 0 THEN <<"-">> ELSE <<>>
        m == Abs(a.milli)
    IN IF a.kind = "int" THEN sign \o NatStr(m \div 1000)
       ELSE sign \o NatStr(m \div 1000) \o <<".">> \o FracStr(m % 1000)

(* Python truthiness of an Optional number: None and zero are false.       *)
TruthyAmount(amount) == amount # None /\ amount[1].milli # 0

(* Python truthiness of an Optional str: None and "" are false.            *)
Truthy(s) == s # <<>>

Whitespace == {" ", "\n", "\t"}

RECURSIVE LStrip(_)
LStrip(s) == IF s # <<>> /\ Head(s) \in Whitespace THEN LStrip(Tail(s)) ELSE s

RECURSIVE RStrip(_)
RStrip(s) ==
    IF s # <<>> /\ s[Len(s)] \in Whitespace THEN RStrip(SubSeq(s, 1, Len(s) - 1)) ELSE s

(* The first three fraction digits as thousandths ("5" is 500, "05" is 50) *)
FracVal(f) ==
    LET d(i) == IF i <= Len(f) THEN DigitVal(f[i]) ELSE 0
    IN d(1) * 100 + d(2) * 10 + d(3)

(* float(s) on the decimal forms the builder writes: surrounding           *)
(* whitespace stripped, an optional sign, digits with an optional          *)
(* fraction.  <<>> stands for the ValueError float() raises; the result is *)
(* otherwise <<milli>>.  Texts in the model carry at most three fraction   *)
(* digits, so the value is exact in thousandths.                           *)
ParseFloat(s) ==
    LET t == RStrip(LStrip(s))
        signed == t # <<>> /\ Head(t) \in {"-", "+"}
        u == IF signed THEN Tail(t) ELSE t
        parts == Split1(u, <<".">>)
        ip == parts[1]
        fp == IF Len(parts) = 2 THEN parts[2] ELSE <<>>
        wellFormed == /\ AllIn(ip, 1, Len(ip), Digit)
                      /\ AllIn(fp, 1, Len(fp), Digit)
                      /\ Len(ip) + Len(fp) > 0
        mag == DigitsVal(ip) * 1000 + FracVal(fp)
    IN IF ~wellFormed THEN <<>>
       ELSE IF signed /\ Head(t) = "-" THEN <<0 - mag>> ELSE <<mag>>

-----------------------------------------------------------------------------
(* UPIValidator                                                            *)

UpiLocalClass == Lower \cup Upper \cup Digit \cup {".", "_", "-"}

UpiDomainClass == Lower \cup Upper \cup Digit \cup {".", "-"}

(* UPI_ID_PATTERN.match(s): ^[a-zA-Z0-9._-]+@[a-zA-Z0-9.-]+$               *)
UpiIdPatternMatch(s) ==
    \E at \in 2..Len(s), e \in DollarEnds(s) :
        /\ s[at] = "@"
        /\ AllIn(s, 1, at - 1, UpiLocalClass)
        /\ e > at
        /\ AllIn(s, at + 1, e, UpiDomainClass)

known_providers ==
    { <<"p","a","y","t","m">>,
      <<"p","h","o","n","e","p","e">>,
      <<"g","p","a","y">>,
      <<"a","m","a","z","o","n","p","a","y">>,
      <<"m","o","b","i","k","w","i","k">>,
      <<"f","r","e","e","c","h","a","r","g","e">>,
      <<"a","i","r","t","e","l">>,
      <<"j","i","o">>,
      <<"s","b","i">>,
      <<"h","d","f","c">>,
      <<"i","c","i","c","i">>,
      <<"a","x","i","s">>,
      <<"k","o","t","a","k">>,
      <<"y","b","l">>,
      <<"i","b","l">>,
      <<"u","p","i">>,
      <<"o","k","a","x","i","s">>,
      <<"o","k","h","d","f","c","b","a","n","k">>,
      <<"o","k","i","c","i","c","i">>,
      <<"o","k","s","b","i">>,
      <<"o","k","b","i","z","a","x","i","s">>,
      <<"a","p","l">>,
      <<"a","x","l">>,
      <<"i","d","f","c","f","i","r","s","t","b","a","n","k">>,
      <<"f","e","d","e","r","a","l">>,
      <<"p","n","b">>,
      <<"b","o","i">>,
      <<"c","a","n","a","r","a">>,
      <<"u","n","i","o","n","b","a","n","k">>,
      <<"i","n","d","i","a","n","b","a","n","k">>,
      <<"c","e","n","t","r","a","l","b","a","n","k","o","f","i","n","d">>,
      <<"d","b","s">>,
      <<"s","c">>,
      <<"c","i","t","i">>,
      <<"h","s","b","c">>,
      <<"y","e","s","b","a","n","k","l","t","d">>,
      <<"r","b","l">>,
      <<"v","i","j","b">>,
      <<"j","k","b">>,
      <<"p","s","b">>,
      <<"i","o","b">>,
      <<"s","y","n","d","i","c","a","t","e">>,
      <<"u","b","o","i">>,
      <<"c","o","r","p">>,
      <<"a","l","l","b","a","n","k">>,
      <<"k","b","l">>,
      <<"k","v","b","l">>,
      <<"t","m","b","l">>,
      <<"t","j","s","b">>,
      <<"n","k","g","s","b">> }

(* The one effect of the provider list: a warning is logged for a domain   *)
(* with no '.' that is not in it.  The "return False" after it is          *)
(* commented out in the source.                                            *)
UnknownDomainWarning(domain) ==
    ~Contains(domain, <<".">>) /\ StrLower(domain) \notin known_providers

validate_upi_id(upi_id) ==
    IF ~Truthy(upi_id) THEN FALSE
    ELSE IF ~UpiIdPatternMatch(upi_id) THEN FALSE
    ELSE LET parts == Split(upi_id, <<"@">>)
         IN IF Len(parts) # 2 THEN FALSE
            ELSE IF Len(parts[1]) < 3 THEN FALSE
            ELSE IF UnknownDomainWarning(parts[2]) THEN TRUE
            ELSE TRUE

IfscTailClass == Upper \cup Digit

(* IFSC_PATTERN.match(s): ^[A-Z]{4}0[A-Z0-9]{6}$                           *)
IfscPatternMatch(s) ==
    \E e \in DollarEnds(s) :
        /\ e = 11
        /\ AllIn(s, 1, 4, Upper)
        /\ s[5] = "0"
        /\ AllIn(s, 6, 11, IfscTailClass)

validate_ifsc(ifsc_code) ==
    IF ~Truthy(ifsc_code) THEN FALSE
    ELSE IfscPatternMatch(StrUpper(ifsc_code))

RECURSIVE OnlyDigits(_)
OnlyDigits(s) ==
    IF s = <<>> THEN <<>>
    ELSE (IF Head(s) \in Digit THEN <<Head(s)>> ELSE <<>>) \o OnlyDigits(Tail(s))

(* ACCOUNT_PATTERN.match(s): ^\d{9,18}$                                    *)
AccountPatternMatch(s) ==
    \E e \in DollarEnds(s) : e >= 9 /\ e <= 18 /\ AllIn(s, 1, e, Digit)

ValidateAccountUnstripped(account_number) ==
    IF ~Truthy(account_number) THEN FALSE
    ELSE AccountPatternMatch(account_number)

validate_account_number(account_number) ==
    IF ~Truthy(account_number) THEN FALSE
    ELSE AccountPatternMatch(OnlyDigits(account_number))

ValidateAmountPositiveOnly(amount) ==
    IF amount = None THEN TRUE
    ELSE IF amount[1].milli <= 0 THEN FALSE
    ELSE IF amount[1].milli > 1000000 * 1000 THEN FALSE
    ELSE IF amount[1].milli % 10 # 0 THEN FALSE
    ELSE TRUE

validate_amount(amount) ==
    IF amount = None THEN TRUE
    ELSE IF amount[1].milli < 0 THEN FALSE
    ELSE IF amount[1].milli > 1000000 * 1000 THEN FALSE
    ELSE IF amount[1].milli % 10 # 0 THEN FALSE
    ELSE TRUE

UpiPrefix == <<"u","p","i",":","/","/","p","a","y","?">>

Kv(k) == <<"&", k[1], k[2], "=">>

create_upi_string(payee_address, payee_name, amount, transaction_note, transaction_ref) ==
    LET base == UpiPrefix \o <<"p","a","=">> \o payee_address \o Kv(<<"p","n">>) \o payee_name
        am == IF TruthyAmount(amount) THEN Kv(<<"a","m">>) \o AmountStr(amount[1]) ELSE <<>>
        tn == IF Truthy(transaction_note)
              THEN Kv(<<"t","n">>) \o Replace(transaction_note, <<" ">>, <<"%","2","0">>)
              ELSE <<>>
        tr == IF Truthy(transaction_ref) THEN Kv(<<"t","r">>) \o transaction_ref ELSE <<>>
    IN base \o am \o tn \o tr

(* The params dict of parse_upi_string: the pieces of the query that hold  *)
(* an '=', in order; a later piece with the same key overwrites.           *)
QueryParams(query_part) ==
    LET pieces == Split(query_part, <<"&">>)
    IN SelectSeq(pieces, LAMBDA p : Contains(p, <<"=">>))

(* params.get(key, default): <<>> stands for None when default is None.    *)
ParamsGet(params, key, default) ==
    LET hits == {i \in DOMAIN params : Split1(params[i], <<"=">>)[1] = key}
    IN IF hits = {} THEN default
       ELSE Split1(params[CHOOSE i \in hits : \A j \in hits : j <= i], <<"=">>)[2]

EmptyResult ==
    [empty |-> TRUE, payee_address |-> <<>>, payee_name |-> <<>>, amount |-> None,
     transaction_note |-> <<>>, transaction_ref |-> <<>>, currency |-> <<>>]

parse_upi_string(upi_string) ==
    IF ~StartsWith(upi_string, UpiPrefix) THEN EmptyResult
    ELSE LET params == QueryParams(Split1(upi_string, <<"?">>)[2])
             am == ParamsGet(params, <<"a","m">>, <<>>)
         IN IF Truthy(am) /\ ParseFloat(am) = <<>> THEN EmptyResult
            ELSE [empty |-> FALSE,
                  payee_address |-> ParamsGet(params, <<"p","a">>, <<>>),
                  payee_name |-> ParamsGet(params, <<"p","n">>, <<>>),
                  amount |-> IF Truthy(am) THEN ParseFloat(am) ELSE None,
                  transaction_note |->
                      Replace(ParamsGet(params, <<"t","n">>, <<>>), <<"%","2","0">>, <<" ">>),
                  transaction_ref |-> ParamsGet(params, <<"t","r">>, <<>>),
                  currency |-> ParamsGet(params, <<"c","u">>, <<"I","N","R">>)]

-----------------------------------------------------------------------------
(* QRCodeGenerator.save_uploaded_logo                                      *)

MAX_LOGO_SIZE_MB == 5

MaxLogoBytes == MAX_LOGO_SIZE_MB * 1024 * 1024

ALLOWED_LOGO_EXTENSIONS == {<<".","p","n","g">>, <<".","j","p","g">>, <<".","j","p","e","g">>, <<".","g","i","f">>}

(* The index of the last occurrence of character c in s, 0 when absent.    *)
LastIndex(s, c) ==
    LET hits == {i \in DOMAIN s : s[i] = c}
    IN IF hits = {} THEN 0 ELSE CHOOSE i \in hits : \A j \in hits : j <= i

(* os.path.splitext(name)[1]: from the last '.' of the last path           *)
(* component, unless that component has only leading dots before it.       *)
SplitextExt(name) ==
    LET sep == LastIndex(name, "/")
        dot == LastIndex(name, ".")
    IN IF dot <= sep THEN <<>>
       ELSE IF \A k \in (sep + 1)..dot : name[k] = "." THEN <<>>
       ELSE Drop(name, dot - 1)

(* An upload is [content_type, filename, nbytes, readable]: content_type   *)
(* and filename are <<>> for None or <<text>>.  The outcome is             *)
(* [kind |-> "return", value |-> <<nbytes>> or None] or                    *)
(* [kind |-> "raise", status |-> n]: every HTTPException raised inside the *)
(* try block is an Exception, so the except clause of the same block       *)
(* catches it and the method returns None.                                 *)
Returned(v) == [kind |-> "return", value |-> v, status |-> 0]

Raised(code) == [kind |-> "raise", value |-> None, status |-> code]

save_uploaded_logo(logo_file) ==
    LET body ==
            IF logo_file.content_type = None THEN Raised(0)
            ELSE IF ~StartsWith(logo_file.content_type[1], <<"i","m","a","g","e","/">>) THEN Raised(400)
            ELSE IF ~logo_file.readable THEN Raised(0)
            ELSE IF logo_file.nbytes > MaxLogoBytes THEN Raised(400)
            ELSE IF logo_file.filename = None THEN Raised(0)
            ELSE IF StrLower(SplitextExt(logo_file.filename[1])) \notin ALLOWED_LOGO_EXTENSIONS
                 THEN Raised(400)
            ELSE Returned(Some(logo_file.nbytes))
    IN IF body.kind = "raise" THEN Returned(None) ELSE body

-----------------------------------------------------------------------------
(* QRCodeStyle and the images of the pipeline                              *)

(* logo_size_ratio is kept in hundredths (0.3 is 30).                      *)
QRCodeStyle ==
    [size |-> Some(300), border |-> 4, box_size |-> 10, fill_color |-> <<"b","l","a","c","k">>,
     back_color |-> <<"w","h","i","t","e">>, logo_url |-> None, logo_path |-> None,
     logo_size_ratio |-> 30, style |-> "square", gradient |-> FALSE,
     format |-> <<"p","n","g">>]

(* A stretch of this many ordinary characters, written as one element of a *)
(* string, so that a payload too long for any QR version can be drawn.     *)
LongRunLen == 3000

LongRun == "long-run"

RECURSIVE ByteLen(_)
ByteLen(s) ==
    IF s = <<>> THEN 0
    ELSE (IF Head(s) = LongRun THEN LongRunLen ELSE 1) + ByteLen(Tail(s))

(* Bytes a QR symbol of version v holds at error correction level H.       *)
CapacityH ==
    <<7, 14, 24, 34, 44, 58, 64, 84, 98, 119, 137, 155, 177, 194, 220, 250, 280, 310,
      338, 382, 403, 439, 461, 511, 535, 593, 625, 658, 698, 742, 790, 842, 898, 958,
      983, 1051, 1093, 1139, 1219, 1273>>

(* qr.make(fit=True): the least version that holds the data, 0 when none   *)
(* does (DataOverflowError).                                               *)
BestFit(payload) ==
    LET fits == {v \in DOMAIN CapacityH : ByteLen(payload) <= CapacityH[v]}
    IN IF fits = {} THEN 0 ELSE CHOOSE v \in fits : \A w \in fits : v <= w

(* Colours are (r, g, b) triples.                                          *)
Black == <<0, 0, 0>>

White == <<255, 255, 255>>

color_map ==
    {<<<<"b","l","a","c","k">>, <<0, 0, 0>>>>, <<<<"w","h","i","t","e">>, <<255, 255, 255>>>>, <<<<"r","e","d">>, <<255, 0, 0>>>>,
     <<<<"g","r","e","e","n">>, <<0, 255, 0>>>>, <<<<"b","l","u","e">>, <<0, 0, 255>>>>, <<<<"y","e","l","l","o","w">>, <<255, 255, 0>>>>,
     <<<<"p","u","r","p","l","e">>, <<128, 0, 128>>>>, <<<<"o","r","a","n","g","e">>, <<255, 165, 0>>>>,
     <<<<"p","i","n","k">>, <<255, 192, 203>>>>, <<<<"b","r","o","w","n">>, <<165, 42, 42>>>>,
     <<<<"g","r","a","y">>, <<128, 128, 128>>>>}

(* color_map.get(name, (0, 0, 0))                                          *)
ColorMapGet(name) ==
    IF \E e \in color_map : e[1] = name
    THEN (CHOOSE e \in color_map : e[1] = name)[2]
    ELSE Black

HexSeq == DigitSeq \o <<"a", "b", "c", "d", "e", "f">>

HexVal(c) == (CHOOSE i \in DOMAIN HexSeq : HexSeq[i] = c) - 1

(* getcolor(color, 'RGB') for a text that starts with '#': the text in     *)
(* lower case as #rgb, #rgba, #rrggbb or #rrggbbaa; <<>> stands for the    *)
(* ValueError of any other form.                                           *)
GetColor(color) ==
    LET h == Tail(StrLower(color))
    IN IF ~AllIn(h, 1, Len(h), Range(HexSeq)) THEN <<>>
       ELSE IF Len(h) \in {3, 4}
            THEN <<<<17 * HexVal(h[1]), 17 * HexVal(h[2]), 17 * HexVal(h[3])>>>>
       ELSE IF Len(h) \in {6, 8}
            THEN <<<<16 * HexVal(h[1]) + HexVal(h[2]), 16 * HexVal(h[3]) + HexVal(h[4]),
                     16 * HexVal(h[5]) + HexVal(h[6])>>>>
       ELSE <<>>

(* _parse_color: a '#' text through getcolor, any other through the map of *)
(* names; black for an unknown name and for every exception (None          *)
(* included, written <<>> like the empty text).                            *)
parse_color(color) ==
    IF color = <<>> THEN Black
    ELSE IF Head(color) = "#"
         THEN (IF GetColor(color) = <<>> THEN Black ELSE GetColor(color)[1])
    ELSE ColorMapGet(StrLower(color))

(* Image.blend(im1, im2, 0.3) on one pixel: im1 + 0.3 * (im2 - im1) on     *)
(* each channel, cut to an integer.                                        *)
Blend(c1, c2) == [k \in 1..3 |-> (10 * c1[k] + 3 * (c2[k] - c1[k])) \div 10]

(* The colour _apply_gradient draws on row y of h: from the fill colour at *)
(* the top towards the back colour.                                        *)
GradientRow(st, y, h) ==
    LET start_color == parse_color(st.fill_color)
        end_color == parse_color(st.back_color)
    IN [k \in 1..3 |-> start_color[k] + ((end_color[k] - start_color[k]) * y) \div h]

(* An image: its size and mode, the data it encodes, the stages that have  *)
(* left their mark, and the colours of its top-left and bottom-left        *)
(* pixels, <<>> while they are what the encoder and the resize made of     *)
(* them.                                                                   *)
Image(w, h, payload) ==
    [w |-> w, h |-> h, mode |-> "RGB", payload |-> payload, logo |-> FALSE,
     mask |-> "none", gradient |-> FALSE, corners |-> <<>>]

NoImage == Image(0, 0, <<>>)

(* A step of the pipeline: the stage, whether it did its work, and the     *)
(* image it handed on.                                                     *)
Step(stage, ok, image) == [stage |-> stage, ok |-> ok, img |-> image]

(* qr.make_image(...).convert('RGB'): box_size pixels per module, border   *)
(* modules on each side.                                                   *)
MakeImage(payload, st) ==
    LET side == (17 + 4 * BestFit(payload) + 2 * st.border) * st.box_size
    IN Image(side, side, payload)

(* A resize that sets the width alone.                                     *)
ResizeWidthOnly(image, size) == [image EXCEPT !.w = size[1]]

(* qr_img.resize((size, size), LANCZOS): PIL raises for a size that is     *)
(* None or not positive.                                                   *)
ResizeRaises(size) == size = None \/ size[1] <= 0

Resize(image, size) == [image EXCEPT !.w = size[1], !.h = size[1]]

FetchFailures == {"timeout", "network", "status4xx", "status5xx", "oversize", "undecodable"}

(* What the logo's server does with the one GET: the transport ("ok",      *)
(* "timeout", "network"), the status, the Content-Length header (None when *)
(* the response has none), the bytes of the body and whether they decode   *)
(* as an image.                                                            *)
LogoResponse(transport, status, content_length, body, decodable) ==
    [transport |-> transport, status |-> status, content_length |-> content_length,
     body |-> body, decodable |-> decodable]

(* _download_logo on a response: "ok" with the image, or the exception.    *)
DownloadLogo(rsp) ==
    IF rsp.transport # "ok" THEN rsp.transport
    ELSE IF rsp.status >= 500 THEN "status5xx"
    ELSE IF rsp.status >= 400 THEN "status4xx"
    ELSE IF rsp.content_length # None /\ rsp.content_length[1] > MaxLogoBytes THEN "oversize"
    ELSE IF ~rsp.decodable THEN "undecodable"
    ELSE "ok"

(* The bytes of the body in memory when client.get returns: all of them,   *)
(* whatever the status and the headers; none when the transport failed.    *)
BodyRead(rsp) == IF rsp.transport # "ok" THEN 0 ELSE rsp.body

(* _download_logo: the image fetched, or the exception it raises.          *)
DownloadRaises(fetch) == fetch \in FetchFailures

(* int(qr_size * style.logo_size_ratio)                                    *)
LogoSize(image, st) == (image.w * st.logo_size_ratio) \div 100

(* An _add_logo whose handler returns the RGBA copy made for the paste.    *)
AddLogoReturnsCopy(image, st, fetch) ==
    IF DownloadRaises(fetch) \/ LogoSize(image, st) <= 0
    THEN Step("logo", FALSE, [image EXCEPT !.mode = "RGBA"])
    ELSE Step("logo", TRUE, [image EXCEPT !.logo = TRUE, !.mode = "RGB"])

(* _add_logo: the overlay pasted at the centre of a copy of the image;     *)
(* every exception of the body is caught and the image given is returned.  *)
AddLogo(image, st, fetch) ==
    IF DownloadRaises(fetch) THEN Step("logo", FALSE, image)
    ELSE IF LogoSize(image, st) <= 0 THEN Step("logo", FALSE, image)
    ELSE Step("logo", TRUE, [image EXCEPT !.logo = TRUE, !.mode = "RGB"])

(* A mask that leaves the pixels it hides as they were.                    *)
ApplyMaskKeepsCorners(image, shape, fault) ==
    IF fault = "mask_early" THEN Step(shape, FALSE, image)
    ELSE IF fault = "mask_late"
         THEN Step(shape, FALSE, [image EXCEPT !.mode = "RGBA", !.mask = shape])
    ELSE Step(shape, TRUE, [image EXCEPT !.mode = "RGB", !.mask = shape])

(* Whether the corner pixels of a side x side image lie outside the mask:  *)
(* always for the circle and the diamond, for the rounded rectangle when   *)
(* its radius side // 20 is not 0.                                         *)
CornersMasked(shape, side) == shape \in {"circle", "diamond"} \/ side \div 20 >= 1

(* The body shared by the three mask methods: the mask as alpha, pasted on *)
(* a white RGB background of the same size.  "mask_early" is a failure     *)
(* before img is rebound to its RGBA copy, "mask_late" one after putalpha. *)
ApplyMask(image, shape, fault) ==
    IF fault = "mask_early" THEN Step(shape, FALSE, image)
    ELSE IF fault = "mask_late"
         THEN Step(shape, FALSE, [image EXCEPT !.mode = "RGBA", !.mask = shape])
    ELSE Step(shape, TRUE,
              [image EXCEPT !.mode = "RGB", !.mask = shape,
                            !.corners = IF CornersMasked(shape, image.w) THEN <<White, White>>
                                        ELSE @])

ApplyRoundedCorners(image, fault) == ApplyMask(image, "rounded", fault)

ApplyCircleShape(image, fault) == ApplyMask(image, "circle", fault)

ApplyDiamondShape(image, fault) == ApplyMask(image, "diamond", fault)

(* _apply_gradient: Image.blend(img.convert('RGB'), gradient, 0.3).        *)
(* "gradient_early" is a failure before img is rebound to its RGB copy,    *)
(* "gradient_late" one in the blend.                                       *)
ApplyGradient(image, st, fault) ==
    IF fault = "gradient_early" THEN Step("gradient", FALSE, image)
    ELSE IF fault = "gradient_late"
         THEN Step("gradient", FALSE, [image EXCEPT !.mode = "RGB"])
    ELSE Step("gradient", TRUE,
              [image EXCEPT !.mode = "RGB", !.gradient = TRUE,
                            !.corners = IF @ = <<>> THEN @
                                        ELSE <<Blend(@[1], GradientRow(st, 0, image.h)),
                                               Blend(@[2], GradientRow(st, image.h - 1, image.h))>>])

(* Formats PIL has a writer for, among those the model draws.              *)
PilWriters == {<<"P","N","G">>, <<"J","P","E","G">>, <<"G","I","F">>}

(* qr_img.save(buffer, format=style.format.upper(), ...): KeyError for an  *)
(* unknown format, OSError for an RGBA image as JPEG.                      *)
SaveRaises(image, st) ==
    \/ StrUpper(st.format) \notin PilWriters
    \/ StrUpper(st.format) = <<"J","P","E","G">> /\ image.mode = "RGBA"

Shapes == {"rounded", "circle", "diamond"}

(* The stages with the mask ahead of the logo.                             *)
StylePlanMaskFirst(st) ==
    (IF st.style \in Shapes THEN <<st.style>> ELSE <<>>)
    \o (IF Truthy(st.logo_url) \/ Truthy(st.logo_path) THEN <<"logo">> ELSE <<>>)
    \o (IF st.gradient THEN <<"gradient">> ELSE <<>>)

(* The style stages _generate_standard_qr runs after the resize, in the    *)
(* order of its statements.                                                *)
StylePlan(st) ==
    (IF Truthy(st.logo_url) \/ Truthy(st.logo_path) THEN <<"logo">> ELSE <<>>)
    \o (IF st.style \in Shapes THEN <<st.style>> ELSE <<>>)
    \o (IF st.gradient THEN <<"gradient">> ELSE <<>>)

(* A run of _generate_standard_qr: the image in hand, the steps taken, the *)
(* stages still to run, and where the run stands: "running", "await_logo"  *)
(* (suspended in the download), "raised" or "saved".                       *)
Run(image, steps, rest, at) == [img |-> image, steps |-> steps, rest |-> rest, at |-> at]

Took(r, step, rest) == Run(step.img, Append(r.steps, step), rest, "running")

ApplyStage(r, stage, st, fault) ==
    IF stage = "rounded" THEN Took(r, ApplyRoundedCorners(r.img, fault), Tail(r.rest))
    ELSE IF stage = "circle" THEN Took(r, ApplyCircleShape(r.img, fault), Tail(r.rest))
    ELSE IF stage = "diamond" THEN Took(r, ApplyDiamondShape(r.img, fault), Tail(r.rest))
    ELSE Took(r, ApplyGradient(r.img, st, fault), Tail(r.rest))

Save(r, st) ==
    IF SaveRaises(r.img, st)
    THEN Run(r.img, Append(r.steps, Step("save", FALSE, r.img)), <<>>, "raised")
    ELSE Run(r.img, Append(r.steps, Step("save", TRUE, r.img)), <<>>, "saved")

(* The stages up to the next await: the logo stage suspends the coroutine  *)
(* in the download, the others run on to the save.                       *)
RECURSIVE RunStages(_, _, _)
RunStages(r, st, fault) ==
    IF r.rest = <<>> THEN Save(r, st)
    ELSE IF Head(r.rest) = "logo" THEN [r EXCEPT !.at = "await_logo"]
    ELSE RunStages(ApplyStage(r, Head(r.rest), st, fault), st, fault)

(* _generate_standard_qr up to its first await.                            *)
GenerateStandardQr(payload, st, fault) ==
    IF BestFit(payload) = 0
    THEN Run(NoImage, <<Step("encode", FALSE, NoImage)>>, <<>>, "raised")
    ELSE LET native == MakeImage(payload, st)
             encoded == <<Step("encode", TRUE, native)>>
         IN IF ResizeRaises(st.size)
            THEN Run(native, Append(encoded, Step("resize", FALSE, native)), <<>>, "raised")
            ELSE LET resized == Resize(native, st.size)
                 IN RunStages(Run(resized, Append(encoded, Step("resize", TRUE, resized)),
                                  StylePlan(st), "running"), st, fault)

(* _generate_standard_qr from the end of the download on.                  *)
ResumeAfterDownload(r, st, fetch, fault) ==
    RunStages(Took(r, AddLogo(r.img, st, fetch), Tail(r.rest)), st, fault)

-----------------------------------------------------------------------------
(* The endpoints of qr_routes.py.  A request is a record of the parameters *)
(* of the three endpoints; a parameter an endpoint does not have keeps its *)
(* QRCodeStyle default.  What a handler decides before it calls            *)
(* generate_qr_code is Reject(status) or Call(data, style).                *)

Reject(status) == [kind |-> "reject", status |-> status, data |-> <<>>, style |-> QRCodeStyle]

Call(payload, st) == [kind |-> "call", status |-> 0, data |-> payload, style |-> st]

(* "x or default" for an Optional int and for an Optional str              *)
IntOr(x, default) == IF x = None \/ x[1] = 0 THEN Some(default) ELSE x

StrOr(x, default) == IF Truthy(x) THEN x ELSE default

(* upi_string += f"&am={amount}" under "if amount:"                        *)
WithAmount(upi_string, amount) ==
    IF TruthyAmount(amount) THEN upi_string \o <<"&","a","m","=">> \o AmountStr(amount[1]) ELSE upi_string

PayTo(address, name) == <<"u","p","i",":","/","/","p","a","y","?","p","a","=">> \o address \o <<"&","p","n","=">> \o name

generate_qr_simple(r) ==
    IF ~validate_upi_id(r.upi_id) THEN Reject(400)
    ELSE Call(WithAmount(PayTo(r.upi_id, r.name), r.amount),
              [QRCodeStyle EXCEPT !.size = IntOr(r.size, 300),
                                  !.format = StrOr(r.format, <<"p","n","g">>)])

AdvancedStyle(r) ==
    [QRCodeStyle EXCEPT !.size = IntOr(r.size, 300), !.logo_url = r.logo_url,
                        !.fill_color = StrOr(r.fill_color, <<"b","l","a","c","k">>),
                        !.back_color = StrOr(r.back_color, <<"w","h","i","t","e">>),
                        !.style = r.style, !.format = StrOr(r.format, <<"p","n","g">>)]

(* A handler that looks at the bank details before the address.           *)
GenerateQrAdvancedBankFirst(r) ==
    IF r.size # None /\ r.size[1] # 0 /\ (r.size[1] < 100 \/ r.size[1] > 1000) THEN Reject(400)
    ELSE IF Truthy(r.ifsc_code) /\ Truthy(r.account_number) /\ Truthy(r.name)
         THEN IF ~validate_ifsc(r.ifsc_code) THEN Reject(400)
              ELSE Call(WithAmount(PayTo(r.account_number \o <<"@">> \o r.ifsc_code
                                         \o <<".","i","f","s","c",".","n","p","c","i">>, r.name), r.amount),
                        AdvancedStyle(r))
    ELSE IF Truthy(r.upi_id) /\ Truthy(r.name)
         THEN IF ~validate_upi_id(r.upi_id) THEN Reject(400)
              ELSE Call(WithAmount(PayTo(r.upi_id, r.name), r.amount), AdvancedStyle(r))
    ELSE Reject(400)

generate_qr_advanced(r) ==
    IF r.size # None /\ r.size[1] # 0 /\ (r.size[1] < 100 \/ r.size[1] > 1000) THEN Reject(400)
    ELSE IF Truthy(r.upi_id) /\ Truthy(r.name)
         THEN IF ~validate_upi_id(r.upi_id) THEN Reject(400)
              ELSE Call(WithAmount(PayTo(r.upi_id, r.name), r.amount), AdvancedStyle(r))
    ELSE IF Truthy(r.ifsc_code) /\ Truthy(r.account_number) /\ Truthy(r.name)
         THEN IF ~validate_ifsc(r.ifsc_code) THEN Reject(400)
              ELSE Call(WithAmount(PayTo(r.account_number \o <<"@">> \o r.ifsc_code
                                         \o <<".","i","f","s","c",".","n","p","c","i">>, r.name), r.amount),
                        AdvancedStyle(r))
    ELSE Reject(400)

(* The Field constraints of QRGenerationRequest; None passes each.         *)
RequestModelValid(r) ==
    /\ ByteLen(r.name) >= 1 /\ ByteLen(r.name) <= 100
    /\ r.amount = None \/ (r.amount[1].milli >= 0 /\ r.amount[1].milli <= 1000000 * 1000)
    /\ r.size = None \/ (r.size[1] >= 100 /\ r.size[1] <= 1000)
    /\ r.border >= 0 /\ r.border <= 20
    /\ r.box_size >= 1 /\ r.box_size <= 50
    /\ r.logo_size_ratio >= 10 /\ r.logo_size_ratio <= 50

PostStyle(r) ==
    [QRCodeStyle EXCEPT !.size = r.size, !.border = r.border, !.box_size = r.box_size,
                        !.fill_color = r.fill_color, !.back_color = r.back_color,
                        !.logo_url = r.logo_url, !.logo_size_ratio = r.logo_size_ratio,
                        !.style = r.style, !.gradient = r.gradient]

generate_qr_post(r) ==
    IF ~RequestModelValid(r) THEN Reject(422)
    ELSE IF ~Truthy(r.upi_id) /\ ~Truthy(r.account_number) THEN Reject(400)
    ELSE IF Truthy(r.upi_id)
         THEN IF ~validate_upi_id(r.upi_id) THEN Reject(400)
              ELSE Call(WithAmount(PayTo(r.upi_id, r.name), r.amount), PostStyle(r))
    ELSE IF ~validate_ifsc(r.ifsc_code) THEN Reject(400)
    ELSE Call(WithAmount(PayTo(r.account_number \o <<"@">> \o r.ifsc_code \o <<".","i","f","s","c",".","n","p","c","i">>,
                               r.name), r.amount), PostStyle(r))

(* The response: the status; for a 200 the payment string and the image.   *)
Response(status, upi_string, image) ==
    [status |-> status, upi_string |-> upi_string, img |-> image]

(* An answer that hands out whatever image the run holds.                  *)
AnswerSwallows(payload, r) == Response(200, payload, r.img)

(* generate_qr_code turns every exception of the run into a 500; the       *)
(* handler passes an HTTPException on and answers 200 with the image.      *)
Answer(payload, r) ==
    IF r.at = "saved" THEN Response(200, payload, r.img)
    ELSE Response(500, <<>>, NoImage)

NotCalled == Run(NoImage, <<>>, <<>>, "idle")

(* A handler from the request to its first await or to its response.       *)
Handle(decision) ==
    IF decision.kind = "reject"
    THEN /\ resp' = Response(decision.status, <<>>, NoImage)
         /\ pc' = "done"
         /\ UNCHANGED <<style, data, run>>
    ELSE LET r == GenerateStandardQr(decision.data, decision.style, env.fault)
         IN /\ style' = decision.style
            /\ data' = decision.data
            /\ run' = r
            /\ IF r.at = "await_logo"
               THEN pc' = "download" /\ UNCHANGED resp
               ELSE pc' = "done" /\ resp' = Answer(decision.data, r)

GenerateQrSimple ==
    /\ pc = "received" /\ req.endpoint = "genqr"
    /\ Handle(generate_qr_simple(req))
    /\ UNCHANGED <<req, env>>
    /\ UNCHANGED unitVars
    /\ UNCHANGED flows
    /\ UNCHANGED rateVars

GenerateQrAdvanced ==
    /\ pc = "received" /\ req.endpoint = "qrgen"
    /\ Handle(generate_qr_advanced(req))
    /\ UNCHANGED <<req, env>>
    /\ UNCHANGED unitVars
    /\ UNCHANGED flows
    /\ UNCHANGED rateVars

GenerateQrPost ==
    /\ pc = "received" /\ req.endpoint = "generate"
    /\ Handle(generate_qr_post(req))
    /\ UNCHANGED <<req, env>>
    /\ UNCHANGED unitVars
    /\ UNCHANGED flows
    /\ UNCHANGED rateVars

(* The responses the model draws for the logo's URL.                       *)
LogoResponses ==
    {LogoResponse("timeout", 0, None, 0, FALSE),
     LogoResponse("network", 0, None, 0, FALSE),
     LogoResponse("ok", 404, Some(9), 9, FALSE),
     LogoResponse("ok", 500, None, 0, FALSE),
     LogoResponse("ok", 200, Some(1024), 1024, TRUE),
     LogoResponse("ok", 200, Some(1024), 1024, FALSE),
     LogoResponse("ok", 200, None, 1024, TRUE),
     LogoResponse("ok", 200, Some(MaxLogoBytes), MaxLogoBytes, TRUE),
     LogoResponse("ok", 200, Some(MaxLogoBytes + 1), MaxLogoBytes + 1, TRUE),
     LogoResponse("ok", 200, None, MaxLogoBytes + 1, TRUE)}

(* The download of the logo ends, well or badly, and the handler runs on   *)
(* to its response.                                                        *)
LogoDownloaded ==
    /\ pc = "download"
    /\ \E rsp \in LogoResponses :
        LET fetch == DownloadLogo(rsp)
            r == ResumeAfterDownload(run, style, fetch, env.fault)
        IN /\ run' = r
           /\ env' = [env EXCEPT !.fetch = fetch, !.gets = @ + 1, !.read = BodyRead(rsp)]
           /\ resp' = Answer(data, r)
    /\ pc' = "done"
    /\ UNCHANGED <<req, style, data>>
    /\ UNCHANGED unitVars
    /\ UNCHANGED flows
    /\ UNCHANGED rateVars

Request ==
    [endpoint |-> "genqr", upi_id |-> <<"a","b","c","@","x">>, name |-> <<"A">>, amount |-> None,
     ifsc_code |-> <<>>, account_number |-> <<>>, size |-> Some(300), border |-> 4,
     box_size |-> 10, fill_color |-> <<"b","l","a","c","k">>, back_color |-> <<"w","h","i","t","e">>, logo_url |-> <<>>,
     logo_size_ratio |-> 30, style |-> "square", gradient |-> FALSE,
     format |-> <<"p","n","g">>]

ReqUpiIds == {<<>>, <<"a","b","@","x">>, <<"a","b","c","@","x">>, <<"a","b","c","@","x","\n">>}

ReqNames == {<<>>, <<"A">>, <<"A", LongRun>>}

ReqAmounts == {None, Float(0), Float(100000), Float(100005), Float(0 - 1000),
               Float(2000000000)}

ReqIfscs == {<<>>, <<"H","D","F","C","0","0","0","1","2","3","4">>, <<"h","d","f","c","0","0","0","1","2","3","4">>, <<"H","D","F","C","1","0","0","1","2","3","4">>}

ReqAccounts == {<<>>, <<"1","2">>, <<"1","2","3","4","5","6","7","8","9","0","1","2">>}

ReqSizes == {Some(0 - 5), Some(0), Some(99), Some(100), Some(300), Some(1000), Some(1001),
             Some(5000)}

ReqFormats == {<<>>, <<"p","n","g">>, <<"j","p","e","g">>, <<"j","p","g">>}

ReqStyles == {"square", "rounded", "circle", "diamond", "hexagon"}

LogoUrl == <<"/","/","l","o","g","o">>

(* The two payees of the documented examples.                              *)
AliceRequest(e) ==
    [Request EXCEPT !.endpoint = e, !.upi_id = <<"u","s","e","r","@","b","a","n","k">>, !.name = <<"A","l","i","c","e">>,
                    !.amount = Float(100000)]

BobRequest(e) ==
    [Request EXCEPT !.endpoint = e, !.upi_id = <<>>, !.name = <<"B","o","b">>,
                    !.ifsc_code = <<"H","D","F","C","0","0","0","1","2","3","4">>, !.account_number = <<"1","2","3","4","5","6","7","8","9","0","1","2">>]

ExampleRequests ==
    {AliceRequest(e) : e \in {"genqr", "qrgen", "generate"}}
        \cup {BobRequest(e) : e \in {"qrgen", "generate"}}

(* Requests that vary who is paid, with the default style.                 *)
PayeeRequests ==
    {[Request EXCEPT !.upi_id = u, !.name = n, !.amount = a]
        : u \in ReqUpiIds, n \in ReqNames, a \in ReqAmounts}
    \cup
    {[Request EXCEPT !.endpoint = e, !.upi_id = u, !.name = n, !.amount = a,
                     !.ifsc_code = i, !.account_number = c]
        : e \in {"qrgen", "generate"}, u \in ReqUpiIds, n \in ReqNames, a \in ReqAmounts,
          i \in ReqIfscs, c \in ReqAccounts}

(* Requests that vary the style, with one valid payee.                     *)
StyleRequests ==
    {[Request EXCEPT !.size = z, !.format = f] : z \in ReqSizes, f \in ReqFormats}
    \cup
    {[Request EXCEPT !.endpoint = "qrgen", !.size = z, !.format = f, !.logo_url = l,
                     !.style = s]
        : z \in ReqSizes, f \in ReqFormats, l \in {<<>>, LogoUrl}, s \in ReqStyles}
    \cup
    {[Request EXCEPT !.endpoint = "generate", !.size = z, !.border = b[1],
                     !.box_size = b[2], !.logo_url = l[1], !.logo_size_ratio = l[2],
                     !.style = s, !.gradient = g]
        : z \in ReqSizes \cup {None}, b \in {<<0, 1>>, <<20, 50>>, <<21, 51>>},
          l \in {<<<<>>, 30>>, <<LogoUrl, 10>>, <<LogoUrl, 50>>, <<LogoUrl, 60>>},
          s \in ReqStyles, g \in BOOLEAN}

ReqColours ==
    {<<<<"b","l","a","c","k">>, <<"w","h","i","t","e">>>>, <<<<"w","h","i","t","e">>, <<"b","l","a","c","k">>>>, <<<<"r","e","d">>, <<"y","e","l","l","o","w">>>>,
     <<<<"#","F","F","F","F","F","F">>, <<"#","f","f","f">>>>, <<<<"#","0","0","0","0","f","f">>, <<"n","o","c","o","l","o","r">>>>, <<<<"O","r","a","n","g","e">>, <<>>>>}

(* Requests that vary the colours, with one valid payee.                   *)
ColourRequests ==
    {[Request EXCEPT !.endpoint = "generate", !.size = z, !.fill_color = c[1],
                     !.back_color = c[2], !.logo_url = l, !.style = s, !.gradient = g]
        : z \in {Some(100), Some(300)}, c \in ReqColours, l \in {<<>>, LogoUrl},
          s \in ReqStyles, g \in BOOLEAN}
    \cup
    {[Request EXCEPT !.endpoint = "qrgen", !.fill_color = c[1], !.back_color = c[2],
                     !.style = "diamond", !.format = f]
        : c \in ReqColours, f \in {<<"p","n","g">>, <<"j","p","e","g">>}}

(* The internal failures a request's stages can meet.                      *)
FaultsFor(r) ==
    {"none"}
    \cup (IF r.style \in Shapes THEN {"mask_early", "mask_late"} ELSE {})
    \cup (IF r.gradient THEN {"gradient_early", "gradient_late"} ELSE {})

UnitIdle ==
    /\ fn = "off"
    /\ args = <<>>
    /\ ret = <<>>

(* No requests in flight side by side.                                     *)
ConcIdle == flows = <<>>

(* The rate limiter not installed.                                         *)
RateIdle ==
    /\ cache = <<>>
    /\ clock = 0
    /\ ledger = <<>>
    /\ served = <<>>

Init ==
    /\ pc = "received"
    /\ \/ req \in PayeeRequests \cup ExampleRequests
          /\ env = [fault |-> "none", fetch |-> "pending", gets |-> 0, read |-> 0]
       \/ req \in StyleRequests \cup ColourRequests
          /\ env \in [fault : FaultsFor(req), fetch : {"pending"}, gets : {0}, read : {0}]
    /\ style = QRCodeStyle
    /\ data = <<>>
    /\ run = NotCalled
    /\ resp = Response(0, <<>>, NoImage)
    /\ UnitIdle
    /\ ConcIdle
    /\ RateIdle

Next ==
    \/ GenerateQrSimple
    \/ GenerateQrAdvanced
    \/ GenerateQrPost
    \/ LogoDownloaded

Spec == Init /\ [][Next]_vars

-----------------------------------------------------------------------------
(* Direct calls of the validator, the builder, the parser and the upload   *)
(* check: the inputs are drawn in the initial state, one action per method *)

ByteSlack == 1

UpiLocals == {<<>>, <<"a","b">>, <<"a","b","c">>, <<"a",".","b">>, <<"a","_","b","-","C">>, <<"a"," ","b">>, <<"a","b","#">>}

UpiSeps == {<<>>, <<"@">>, <<"@","@">>}

UpiDomains == {<<>>, <<"x">>, <<"y","b","l">>, <<"m","y",".","b","a","n","k">>, <<"b","a","_","n","k">>, <<"B","a","n","k","9">>}

Endings == {<<>>, <<"\n">>, <<"\n","\n">>, <<" ">>}

UpiIdInputs == {l \o a \o d \o e : l \in UpiLocals, a \in UpiSeps, d \in UpiDomains, e \in Endings}

IfscHeads == {<<"H","D","F","C">>, <<"h","d","f","c">>, <<"H","D","F">>, <<"H","D","F","C","X">>, <<"H","D","1","C">>, <<SharpS,"B","I">>}

IfscFifths == {<<"0">>, <<"1">>, <<"O">>, <<>>}

IfscTails == {<<"0","0","1","2","3","4">>, <<"0","0","1","2","3">>, <<"0","0","1","2","3","4","5">>, <<"a","b","1","2","c","d">>, <<"0","0","-","2","3","4">>}

IfscInputs == {h \o f \o t \o e : h \in IfscHeads, f \in IfscFifths, t \in IfscTails, e \in Endings}

BuildAddresses == {<<"a","b","c","@","x">>, <<"a",".","b","-","c","@","m","y",".","b","a","n","k">>}

BuildNames == {<<"A">>, <<"A"," ","B">>, <<"A","&","B">>, <<"A","=","B">>}

BuildAmounts == {None, Float(0), PyInt(0), Float(100000), PyInt(100), Float(100500),
                 Float(100050), Float(10), Float(1000000000)}

BuildNotes == {<<>>, <<"h","i">>, <<"a"," ","b">>, <<" ","a"," "," ","b">>, <<"a","%","2","0","b">>, <<"a","&","b">>}

BuildRefs == {<<>>, <<"r","1">>}

BuildInputs ==
    [payee_address : BuildAddresses, payee_name : BuildNames, amount : BuildAmounts,
     transaction_note : BuildNotes, transaction_ref : BuildRefs]

UploadInputs ==
    [content_type : {None, Some(<<"i","m","a","g","e","/","p","n","g">>), Some(<<"t","e","x","t","/","p","l","a","i","n">>), Some(<<"i","m","a","g","e","/">>)},
     filename : {None, Some(<<"a",".","p","n","g">>), Some(<<"a",".","P","N","G">>), Some(<<"b",".","j","p","e","g">>), Some(<<"c",".","g","i","f">>),
                 Some(<<"d",".","e","x","e">>), Some(<<"n","o","e","x","t">>), Some(<<".","p","n","g">>), Some(<<"e",".","p","n","g",".","s","h">>)},
     nbytes : {0, 1024} \cup ((MaxLogoBytes - ByteSlack)..(MaxLogoBytes + ByteSlack)),
     readable : BOOLEAN]

MaxAccountDigits == 20

(* n digits, then the same digits with separators, padding or letters      *)
AccountDigits(n) == [i \in 1..n |-> DigitSeq[(i % 10) + 1]]

AccountWritings(d) ==
    {d,
     SubSeq(d, 1, Len(d) \div 2) \o <<"-">> \o SubSeq(d, Len(d) \div 2 + 1, Len(d)),
     <<" ">> \o d \o <<"\n">>,
     <<"A","C">> \o d \o <<"x">>,
     SubSeq(d, 1, Len(d) \div 2) \o <<" ","/"," ">> \o SubSeq(d, Len(d) \div 2 + 1, Len(d)) \o <<".">>}

AccountInputs == UNION {AccountWritings(AccountDigits(n)) : n \in 0..MaxAccountDigits}

AmountSlack == 12

AmountInputs ==
    {None, PyInt(0), PyInt(1000000), PyInt(1000001), PyInt(0 - 1)}
        \cup {Float(b + d) : b \in {0, 100000, 1000000 * 1000}, d \in (0 - AmountSlack)..AmountSlack}

ParseHeads == {UpiPrefix, <<"u","p","i",":","/","/","p","a","y">>, <<"U","P","I",":","/","/","p","a","y","?">>, <<"h","t","t","p",":","/","/","p","a","y","?">>, <<>>}

ParseAms == {<<>>, <<"&","a","m","=","1","0","0">>, <<"&","a","m","=","1","0","0",".","5">>, <<"&","a","m","=","a","b","c">>, <<"&","a","m","=">>, <<"&","a","m","=","1",".","2",".","3">>, <<"&","a","m","=","-","5">>, <<"&","a","m","="," ","7"," ">>, <<"&","a","m","=","1","2","x">>}

ParseInputs ==
    {h \o pa \o pn \o am \o tn \o cu :
        h \in ParseHeads, pa \in {<<>>, <<"p","a","=","a","b","c","@","x">>}, pn \in {<<>>, <<"&","p","n","=","A">>}, am \in ParseAms,
        tn \in {<<>>, <<"&","t","n","=","h","i","%","2","0","t","h","e","r","e","&","t","r","=","r","1">>}, cu \in {<<>>, <<"&","c","u","=","U","S","D">>}}

FlowIdle ==
    /\ pc = "off"
    /\ req = Request
    /\ style = QRCodeStyle
    /\ data = <<>>
    /\ run = NotCalled
    /\ env = [fault |-> "none", fetch |-> "pending", gets |-> 0, read |-> 0]
    /\ resp = Response(0, <<>>, NoImage)

InitUnit ==
    /\ \/ fn = "validate_upi_id" /\ args \in UpiIdInputs
       \/ fn = "validate_ifsc" /\ args \in IfscInputs
       \/ fn = "validate_account_number" /\ args \in AccountInputs
       \/ fn = "validate_amount" /\ args \in AmountInputs
       \/ fn = "create_upi_string" /\ args \in BuildInputs
       \/ fn = "parse_upi_string" /\ args \in ParseInputs
       \/ fn = "save_uploaded_logo" /\ args \in UploadInputs
    /\ ret = <<>>
    /\ FlowIdle
    /\ ConcIdle
    /\ RateIdle

ValidateUpiId ==
    /\ fn = "validate_upi_id" /\ ret = <<>>
    /\ ret' = <<validate_upi_id(args)>>
    /\ UNCHANGED <<fn, args>>
    /\ UNCHANGED flowVars
    /\ UNCHANGED flows
    /\ UNCHANGED rateVars

ValidateIfsc ==
    /\ fn = "validate_ifsc" /\ ret = <<>>
    /\ ret' = <<validate_ifsc(args)>>
    /\ UNCHANGED <<fn, args>>
    /\ UNCHANGED flowVars
    /\ UNCHANGED flows
    /\ UNCHANGED rateVars

ValidateAccountNumber ==
    /\ fn = "validate_account_number" /\ ret = <<>>
    /\ ret' = <<validate_account_number(args)>>
    /\ UNCHANGED <<fn, args>>
    /\ UNCHANGED flowVars
    /\ UNCHANGED flows
    /\ UNCHANGED rateVars

ValidateAmount ==
    /\ fn = "validate_amount" /\ ret = <<>>
    /\ ret' = <<validate_amount(args)>>
    /\ UNCHANGED <<fn, args>>
    /\ UNCHANGED flowVars
    /\ UNCHANGED flows
    /\ UNCHANGED rateVars

CreateUpiString ==
    /\ fn = "create_upi_string" /\ ret = <<>>
    /\ ret' = <<create_upi_string(args.payee_address, args.payee_name, args.amount,
                                   args.transaction_note, args.transaction_ref)>>
    /\ UNCHANGED <<fn, args>>
    /\ UNCHANGED flowVars
    /\ UNCHANGED flows
    /\ UNCHANGED rateVars

(* The parser applied to what the builder returned, or to a text given    *)
(* to it directly.                                                         *)
ParseUpiString ==
    /\ \/ fn = "create_upi_string" /\ Len(ret) = 1
          /\ ret' = Append(ret, parse_upi_string(ret[1]))
       \/ fn = "parse_upi_string" /\ ret = <<>>
          /\ ret' = <<parse_upi_string(args)>>
    /\ UNCHANGED <<fn, args>>
    /\ UNCHANGED flowVars
    /\ UNCHANGED flows
    /\ UNCHANGED rateVars

SaveUploadedLogo ==
    /\ fn = "save_uploaded_logo" /\ ret = <<>>
    /\ ret' = <<save_uploaded_logo(args)>>
    /\ UNCHANGED <<fn, args>>
    /\ UNCHANGED flowVars
    /\ UNCHANGED flows
    /\ UNCHANGED rateVars

NextUnit ==
    \/ ValidateUpiId
    \/ ValidateIfsc
    \/ ValidateAccountNumber
    \/ ValidateAmount
    \/ CreateUpiString
    \/ ParseUpiString
    \/ SaveUploadedLogo

SpecUnit == InitUnit /\ [][NextUnit]_vars

-----------------------------------------------------------------------------
(* Requests in flight side by side on the one event loop.  Each request    *)
(* is a call of its handler: a coroutine with its own parameters and       *)
(* locals (the request, the style built from it, the payment string, the   *)
(* run of _generate_standard_qr, its response).  A handler runs without    *)
(* interruption from one await to the next; the only await that suspends   *)
(* it is the download of the logo.                                         *)

NRequests == 2

(* The router's dispatch on the path.                                      *)
Decide(r) ==
    IF r.endpoint = "genqr" THEN generate_qr_simple(r)
    ELSE IF r.endpoint = "qrgen" THEN generate_qr_advanced(r)
    ELSE generate_qr_post(r)

(* A call of a handler: the request and what the call holds.               *)
Flow(r, fault) ==
    [pc |-> "received", req |-> r, style |-> QRCodeStyle, data |-> <<>>, run |-> NotCalled,
     env |-> [fault |-> fault, fetch |-> "pending", gets |-> 0, read |-> 0],
     resp |-> Response(0, <<>>, NoImage)]

(* A handler from the request to its first await or to its response.       *)
Enter(f) ==
    LET d == Decide(f.req)
        r == GenerateStandardQr(d.data, d.style, f.env.fault)
    IN IF d.kind = "reject"
       THEN [f EXCEPT !.pc = "done", !.resp = Response(d.status, <<>>, NoImage)]
       ELSE IF r.at = "await_logo"
            THEN [f EXCEPT !.pc = "download", !.style = d.style, !.data = d.data, !.run = r]
       ELSE [f EXCEPT !.pc = "done", !.style = d.style, !.data = d.data, !.run = r,
                      !.resp = Answer(d.data, r)]

(* A style slot the calls would share, holding the first call's style.     *)
StyleOfFirstCall(fs, i) == fs[1].style

(* The style a suspended call resumes with: its own parameter.             *)
StyleInHand(fs, i) == fs[i].style

(* A handler from the end of its download to its response.                 *)
Resume(f, st, rsp) ==
    LET fetch == DownloadLogo(rsp)
        r == ResumeAfterDownload(f.run, st, fetch, f.env.fault)
    IN [f EXCEPT !.pc = "done", !.run = r,
                 !.env = [@ EXCEPT !.fetch = fetch, !.gets = @ + 1, !.read = BodyRead(rsp)],
                 !.resp = Answer(f.data, r)]

ConcRequests ==
    {AliceRequest("genqr"),
     [Request EXCEPT !.name = <<>>],
     [Request EXCEPT !.endpoint = "qrgen", !.logo_url = LogoUrl, !.style = "circle",
                     !.format = <<"j","p","e","g">>, !.size = Some(100)],
     [Request EXCEPT !.endpoint = "generate", !.logo_url = LogoUrl, !.logo_size_ratio = 50,
                     !.style = "diamond", !.gradient = TRUE, !.fill_color = <<"r","e","d">>,
                     !.back_color = <<"y","e","l","l","o","w">>]}

(* The responses drawn for the logo of a request in flight beside others.  *)
ConcResponses ==
    {LogoResponse("timeout", 0, None, 0, FALSE),
     LogoResponse("ok", 200, Some(1024), 1024, TRUE),
     LogoResponse("ok", 200, Some(MaxLogoBytes + 1), MaxLogoBytes + 1, TRUE)}

InitConc ==
    /\ flows \in [1..NRequests -> {Flow(r, "none") : r \in ConcRequests}]
    /\ FlowIdle
    /\ UnitIdle
    /\ RateIdle

ConcEnter ==
    /\ \E i \in DOMAIN flows :
          /\ flows[i].pc = "received"
          /\ flows' = [flows EXCEPT ![i] = Enter(flows[i])]
    /\ UNCHANGED flowVars
    /\ UNCHANGED unitVars
    /\ UNCHANGED rateVars

ConcLogoDownloaded ==
    /\ \E i \in DOMAIN flows, rsp \in ConcResponses :
          /\ flows[i].pc = "download"
          /\ flows' = [flows EXCEPT ![i] = Resume(flows[i], StyleInHand(flows, i), rsp)]
    /\ UNCHANGED flowVars
    /\ UNCHANGED unitVars
    /\ UNCHANGED rateVars

NextConc ==
    \/ ConcEnter
    \/ ConcLogoDownloaded

SpecConc == InitConc /\ [][NextConc]_vars

-----------------------------------------------------------------------------
(* Properties of the direct calls                                          *)

(* The amount the parser returned equals the amount given to the builder.  *)
SameAmount(given, parsed) ==
    IF given = None THEN parsed = None ELSE parsed = <<given[1].milli>>

(* C2: for a valid address and a non-empty name, any amount that           *)
(* validate_amount accepts (0 included) and a non-empty note,              *)
(* parse_upi_string(create_upi_string(...)) gives back the address, the    *)
(* name, the amount and the note.                                          *)
C2_RoundTrip ==
    (/\ fn = "create_upi_string" /\ Len(ret) = 2
     /\ validate_upi_id(args.payee_address)
     /\ Truthy(args.payee_name) /\ Truthy(args.transaction_note)
     /\ validate_amount(args.amount))
    => /\ ret[2].payee_address = args.payee_address
       /\ ret[2].payee_name = args.payee_name
       /\ SameAmount(args.amount, ret[2].amount)
       /\ ret[2].transaction_note = args.transaction_note

(* C3: create_upi_string returns 'upi://pay?pa=<address>&pn=<name>', then  *)
(* '&am=<amount>' exactly when an amount is supplied, '&tn=<note with      *)
(* spaces as %20>' exactly when a note is supplied and '&tr=<ref>' exactly *)
(* when a ref is supplied, in that order.                                  *)
C3_BuildFormat ==
    (fn = "create_upi_string" /\ Len(ret) >= 1)
    => ret[1] = <<"u","p","i",":","/","/","p","a","y","?","p","a","=">> \o args.payee_address \o <<"&","p","n","=">> \o args.payee_name
                \o (IF args.amount # None THEN <<"&","a","m","=">> \o AmountStr(args.amount[1]) ELSE <<>>)
                \o (IF args.transaction_note # <<>>
                    THEN <<"&","t","n","=">> \o Replace(args.transaction_note, <<" ">>, <<"%","2","0">>) ELSE <<>>)
                \o (IF args.transaction_ref # <<>>
                    THEN <<"&","t","r","=">> \o args.transaction_ref ELSE <<>>)

UploadInvalid(f) ==
    \/ f.content_type # None /\ ~StartsWith(f.content_type[1], <<"i","m","a","g","e","/">>)
    \/ f.filename # None
       /\ StrLower(SplitextExt(f.filename[1])) \notin {<<".","p","n","g">>, <<".","j","p","g">>, <<".","j","p","e","g">>, <<".","g","i","f">>}
    \/ f.nbytes > 5 * 1024 * 1024

(* C6: save_uploaded_logo on an upload whose content type does not start   *)
(* with 'image/', whose extension is not allowed or whose size exceeds the *)
(* cap ends in an error raised to the caller, never in a normal return.    *)
C6_UploadRejected ==
    (fn = "save_uploaded_logo" /\ ret # <<>> /\ UploadInvalid(args))
    => ret[1].kind = "raise"

(* localpart@domain over the whole string: a local part of 3 or more       *)
(* characters of [A-Za-z0-9._-], a domain of 1 or more of [A-Za-z0-9.-].   *)
UpiGrammar(s) ==
    \E at \in DOMAIN s :
        /\ s[at] = "@"
        /\ at - 1 >= 3
        /\ \A k \in 1..(at - 1) : s[k] \in Lower \cup Upper \cup Digit \cup {".", "_", "-"}
        /\ Len(s) - at >= 1
        /\ \A k \in (at + 1)..Len(s) : s[k] \in Lower \cup Upper \cup Digit \cup {".", "-"}

(* C9: validate_upi_id(s) is true exactly when the whole of s is           *)
(* localpart@domain as above; a trailing newline makes it false.           *)
C9_UpiIdExact ==
    (fn = "validate_upi_id" /\ ret # <<>>) => (ret[1] <=> UpiGrammar(args))

(* C10: validate_ifsc(s) is true exactly when s has exactly 11 characters  *)
(* that, upper-cased, are 4 letters, the digit 0 and 6 of [A-Z0-9].        *)
C10_IfscExact ==
    (fn = "validate_ifsc" /\ ret # <<>>)
    => (ret[1] <=> (/\ Len(args) = 11
                    /\ LET u == StrUpper(args)
                       IN /\ Len(u) = 11
                          /\ \A k \in 1..4 : u[k] \in Upper
                          /\ u[5] = "0"
                          /\ \A k \in 6..11 : u[k] \in Upper \cup Digit))

-----------------------------------------------------------------------------
(* Properties of the endpoints and the pipeline                            *)

Called == run # NotCalled

StepsOf(stages) == {i \in DOMAIN run.steps : run.steps[i].stage \in stages}

(* C1 as claimed: the shape mask runs before the logo overlay and the      *)
(* gradient blend after both, so no logo step precedes a mask step and no  *)
(* gradient step precedes either.                                          *)
C1_MaskLogoGradient ==
    /\ \A i \in StepsOf({"logo"}), j \in StepsOf(Shapes) : j < i
    /\ \A i \in StepsOf({"gradient"}), j \in StepsOf(Shapes \cup {"logo"}) : j < i

(* C1 as the code has it: of the style stages that run on the resized      *)
(* image, the logo overlay comes first, then the shape mask, then the      *)
(* gradient blend, each at most once; none runs before the resize.         *)
C1_LogoMaskGradient ==
    /\ \A i \in StepsOf(Shapes), j \in StepsOf({"logo"}) : j < i
    /\ \A i \in StepsOf({"gradient"}), j \in StepsOf(Shapes \cup {"logo"}) : j < i
    /\ \A i \in StepsOf(Shapes \cup {"logo", "gradient"}), j \in StepsOf({"resize"}) : j < i
    /\ Cardinality(StepsOf({"logo"})) <= 1
    /\ Cardinality(StepsOf(Shapes)) <= 1
    /\ Cardinality(StepsOf({"gradient"})) <= 1

(* A finished request in which all three style stages ran.                 *)
C1_Witness ==
    /\ pc = "done" /\ run.at = "saved"
    /\ StepsOf({"logo"}) # {} /\ StepsOf(Shapes) # {} /\ StepsOf({"gradient"}) # {}

(* C4: the image handed to the output encoder, and the image every stage   *)
(* from the resize on hands to the next, is size x size, whatever the      *)
(* box_size and border and whether a stage worked or failed softly.        *)
C4_SquareOfSize ==
    \A i \in DOMAIN run.steps :
        (\E j \in StepsOf({"resize"}) : j <= i /\ run.steps[j].ok)
        => run.steps[i].img.w = style.size[1] /\ run.steps[i].img.h = style.size[1]

(* A saved image whose native side differed from the size asked for, after *)
(* a logo that failed and a mask that failed softly.                       *)
C4_Witness ==
    /\ pc = "done" /\ run.at = "saved"
    /\ style.size[1] \in 100..1000
    /\ run.steps[1].img.w # style.size[1]
    /\ \E i \in StepsOf({"logo"}) : ~run.steps[i].ok
    /\ \E i \in StepsOf(Shapes) : ~run.steps[i].ok
    /\ \E i \in StepsOf({"save"}) : run.steps[i].img.w = style.size[1]

StageNames(steps) == [i \in DOMAIN steps |-> steps[i].stage]

(* C5: a logo whose download or decoding fails leaves the logo stage with  *)
(* the image it was given; the stages after it all run, up to the save;    *)
(* and the request ends 200 with an image of the payment string, the save  *)
(* being the only step left that can refuse (an output format PIL cannot   *)
(* write).                                                                 *)
C5_LogoFailsSoftly ==
    \A i \in StepsOf({"logo"}) :
        env.fetch \in FetchFailures
        => /\ ~run.steps[i].ok
           /\ run.steps[i].img = run.steps[i - 1].img
           /\ pc = "done"
           /\ StageNames(SubSeq(run.steps, i + 1, Len(run.steps)))
                = (IF style.style \in Shapes THEN <<style.style>> ELSE <<>>)
                  \o (IF style.gradient THEN <<"gradient">> ELSE <<>>) \o <<"save">>
           /\ run.steps[Len(run.steps)].img.payload = data
           /\ IF run.steps[Len(run.steps)].ok
              THEN /\ resp.status = 200
                   /\ resp.upi_string = data
                   /\ resp.img.payload = data
                   /\ ~resp.img.logo
              ELSE resp.status = 500

(* A request answered 200 after a logo download that timed out, the mask   *)
(* and the gradient having run after it.                                   *)
C5_Witness ==
    /\ pc = "done" /\ env.fetch = "timeout" /\ resp.status = 200
    /\ StepsOf({"logo"}) # {} /\ StepsOf(Shapes) # {} /\ StepsOf({"gradient"}) # {}
    /\ resp.img.payload = data /\ data # <<>>

(* What C7 calls a request that must be rejected.                          *)
RequestInvalid(r) ==
    \/ ~validate_amount(r.amount)
    \/ (r.endpoint = "genqr" \/ Truthy(r.upi_id)) /\ ~validate_upi_id(r.upi_id)
    \/ r.endpoint # "genqr" /\ ~Truthy(r.upi_id)
       /\ (~validate_ifsc(r.ifsc_code) \/ ~validate_account_number(r.account_number))

(* C7: a request with a malformed address or bank code, an account number  *)
(* that fails validate_account_number, an amount that fails                *)
(* validate_amount or no usable addressing is rejected with a client error *)
(* and generate_qr_code is never invoked for it.                           *)
C7_InvalidRejected ==
    (pc = "done" /\ RequestInvalid(req))
    => (resp.status \in {400, 422} /\ ~Called)

(* C8: a request whose size is outside [100,1000] (0 and negatives         *)
(* included) is rejected, and generate_qr_code is only ever called with a  *)
(* size within [100,1000].                                                 *)
C8_SizeBounded ==
    /\ (pc = "done" /\ req.size # None /\ req.size[1] \notin 100..1000)
       => (resp.status \in {400, 422} /\ ~Called)
    /\ Called => (style.size # None /\ style.size[1] \in 100..1000)

-----------------------------------------------------------------------------
(* Properties of the account-number check, the amount check and the parser *)

DigitCount(s) == Cardinality({i \in DOMAIN s : s[i] \in Digit})

(* C11: validate_account_number(s) is true exactly when s holds between 9  *)
(* and 18 digit characters, whatever other characters surround them, and   *)
(* is false otherwise, the empty string included.                          *)
C11_AccountDigitCount ==
    (fn = "validate_account_number" /\ ret # <<>>) =>
        (ret[1] = (DigitCount(args) >= 9 /\ DigitCount(args) <= 18))

C11_Witness ==
    /\ fn = "validate_account_number" /\ ret = <<TRUE>>
    /\ DigitCount(args) = 18 /\ Len(args) > 18

(* C12: validate_amount accepts an absent amount; a present amount is      *)
(* accepted exactly when it is at least 0, at most 1,000,000 and has at    *)
(* most two decimal places: 0 and 1,000,000 pass, 100.005 does not.        *)
C12_AmountRange ==
    (fn = "validate_amount" /\ ret # <<>>) =>
        /\ args = None => ret[1] = TRUE
        /\ args # None =>
              ret[1] = (/\ args[1].milli >= 0
                        /\ args[1].milli <= 1000000000
                        /\ args[1].milli % 10 = 0)
        /\ args \in {Float(0), Float(1000000000)} => ret[1] = TRUE
        /\ args = Float(100005) => ret[1] = FALSE

C12_Witness ==
    /\ fn = "validate_amount" /\ ret = <<TRUE>> /\ args = Float(1000000000)

(* C13: parse_upi_string returns the empty result for a text without the   *)
(* prefix; for a text with the prefix it returns a populated mapping whose *)
(* amount is the decimal value of 'am' when that is present and parseable  *)
(* and unset otherwise, the other keys being returned all the same, and    *)
(* whose currency is INR when 'cu' is absent.                              *)
C13_ParseTotal ==
    (fn = "parse_upi_string" /\ ret # <<>>) =>
        LET params == QueryParams(Split1(args, <<"?">>)[2])
            am == ParamsGet(params, <<"a","m">>, <<>>)
        IN IF ~StartsWith(args, UpiPrefix) THEN ret[1].empty
           ELSE /\ ~ret[1].empty
                /\ ret[1].payee_address = ParamsGet(params, <<"p","a">>, <<>>)
                /\ ret[1].payee_name = ParamsGet(params, <<"p","n">>, <<>>)
                /\ ret[1].transaction_ref = ParamsGet(params, <<"t","r">>, <<>>)
                /\ ret[1].amount = (IF Truthy(am) THEN ParseFloat(am) ELSE None)
                /\ ParamsGet(params, <<"c","u">>, <<>>) = <<>> => ret[1].currency = <<"I","N","R">>

-----------------------------------------------------------------------------
(* Properties of the payment string the endpoints build and of the encoder *)

EndsWith(s, tail) ==
    Len(s) >= Len(tail) /\ SubSeq(s, Len(s) - Len(tail) + 1, Len(s)) = tail

(* C14: address 'user@bank', name 'Alice' and amount 100 give exactly      *)
(* 'upi://pay?pa=user@bank&pn=Alice&am=100'; a whole-number amount an      *)
(* endpoint receives is written without a fractional part or a trailing    *)
(* '.0'; and that string is the data given to the encoder.                 *)
C14_WholeAmountPlain ==
    Called =>
        /\ (\E e \in {"genqr", "qrgen", "generate"} : req = AliceRequest(e))
              => data = <<"u","p","i",":","/","/","p","a","y","?","p","a","=","u","s","e","r","@","b","a","n","k","&","p","n","=","A","l","i","c","e","&","a","m","=","1","0","0">>
        /\ (req.amount # None /\ req.amount[1].milli > 0 /\ req.amount[1].milli % 1000 = 0)
              => EndsWith(data, <<"&","a","m","=">> \o NatStr(req.amount[1].milli \div 1000))
        /\ \A i \in StepsOf({"encode"}) : run.steps[i].ok => run.steps[i].img.payload = data

(* The address an endpoint pays to: the payment address when one is given, *)
(* the account at the bank code otherwise.                                 *)
AddressOf(r) ==
    IF r.endpoint = "genqr" \/ Truthy(r.upi_id) THEN r.upi_id
    ELSE r.account_number \o <<"@">> \o r.ifsc_code \o <<".","i","f","s","c",".","n","p","c","i">>

(* C15: every payment string an endpoint produces uses one addressing mode *)
(* and equals what create_upi_string returns for that address: the payment *)
(* address when one is supplied, bank details or not; otherwise            *)
(* 'A@B.ifsc.npci' for the account number A and the bank code B, both      *)
(* present and B valid; HDFC0001234, 123456789012 and Bob give             *)
(* 'upi://pay?pa=123456789012@HDFC0001234.ifsc.npci&pn=Bob'.               *)
C15_OneAddressingMode ==
    Called =>
        /\ data = create_upi_string(AddressOf(req), req.name, req.amount, <<>>, <<>>)
        /\ Truthy(req.upi_id) => StartsWith(data, <<"u","p","i",":","/","/","p","a","y","?","p","a","=">> \o req.upi_id \o <<"&","p","n","=">>)
        /\ ~Truthy(req.upi_id) =>
              /\ Truthy(req.ifsc_code) /\ validate_ifsc(req.ifsc_code)
              /\ Truthy(req.account_number)
              /\ StartsWith(data, <<"u","p","i",":","/","/","p","a","y","?","p","a","=">> \o req.account_number \o <<"@">> \o req.ifsc_code
                                   \o <<".","i","f","s","c",".","n","p","c","i","&","p","n","=">>)
        /\ (\E e \in {"qrgen", "generate"} : req = BobRequest(e))
              => data = <<"u","p","i",":","/","/","p","a","y","?","p","a","=","1","2","3","4","5","6","7","8","9","0","1","2","@","H","D","F","C","0","0","0","1","2","3","4",".","i","f","s","c",".","n","p","c","i","&","p","n","=","B","o","b">>

(* A request with a valid address and valid bank details, answered with    *)
(* the string of the address alone.                                        *)
C15_Witness ==
    /\ pc = "done" /\ resp.status = 200 /\ req.endpoint = "qrgen"
    /\ Truthy(req.upi_id) /\ validate_ifsc(req.ifsc_code)
    /\ validate_account_number(req.account_number)
    /\ resp.upi_string = <<"u","p","i",":","/","/","p","a","y","?","p","a","=">> \o req.upi_id \o <<"&","p","n","=">> \o req.name

(* C16: when the data does not fit the largest symbol the encoder's        *)
(* failure is not swallowed: the run raises at the encode step, no later   *)
(* step runs, and the request ends 500 with no payment string and no       *)
(* image.                                                                  *)
C16_EncoderFailureSurfaces ==
    (Called /\ BestFit(data) = 0) =>
        /\ pc = "done"
        /\ run.at = "raised"
        /\ StageNames(run.steps) = <<"encode">> /\ ~run.steps[1].ok
        /\ resp = Response(500, <<>>, NoImage)

(* A request whose payment string is longer than any symbol holds.         *)
C16_Witness ==
    /\ pc = "done" /\ Called /\ ByteLen(data) > CapacityH[40]
    /\ resp.status = 500

(* C17: a mask or gradient stage that fails internally hands on exactly    *)
(* the image it received; the stages after it still run, up to the save;   *)
(* and the failure alone does not turn the request into an error: the      *)
(* request ends 200 unless the output format is one PIL cannot write.      *)
C17_StyleStagesFailSoft ==
    \A i \in StepsOf(Shapes \cup {"gradient"}) :
        ~run.steps[i].ok =>
            /\ run.steps[i].img = run.steps[i - 1].img
            /\ StageNames(SubSeq(run.steps, i + 1, Len(run.steps)))
                 = (IF run.steps[i].stage \in Shapes /\ style.gradient THEN <<"gradient">> ELSE <<>>)
                   \o <<"save">>
            /\ pc = "done"
            /\ resp.status = 200 \/ StrUpper(style.format) \notin PilWriters

(* C18: a logo response whose Content-Length exceeds the limit is failed   *)
(* before any byte of its body is read into memory, and a request makes at *)
(* most one fetch attempt.                                                 *)
C18_OversizeBeforeBody ==
    /\ env.fetch = "oversize" => env.read = 0
    /\ env.gets <= 1

MaskDone == \E i \in StepsOf(Shapes) : run.steps[i].ok

GradientDone == \E i \in StepsOf({"gradient"}) : run.steps[i].ok

-----------------------------------------------------------------------------
(* Properties of requests in flight side by side                           *)

(* What a request gets when it is served alone, given the outcome of its   *)
(* own logo download ("pending" when it made none).                        *)
ServedAlone(r, fault, fetch) ==
    LET d == Decide(r)
        first == GenerateStandardQr(d.data, d.style, fault)
        last == IF first.at = "await_logo"
                THEN ResumeAfterDownload(first, d.style, fetch, fault)
                ELSE first
    IN IF d.kind = "reject"
       THEN [data |-> <<>>, resp |-> Response(d.status, <<>>, NoImage)]
       ELSE [data |-> d.data, resp |-> Answer(d.data, last)]

-----------------------------------------------------------------------------
(* RateLimiterMiddleware.  Its state is self.cache, a TTLCache from client *)
(* address to (request_count, window_start); the clock counts seconds.     *)
(* dispatch has no await before its verdict, so a request is one step.     *)

(* settings.RATE_LIMIT_REQUESTS and settings.RATE_LIMIT_WINDOW (100 and 60 *)
(* unless configured otherwise) and the cache's maxsize (10000), drawn     *)
(* small.                                                                  *)
RateLimitRequests == 2

RateLimitWindow == 2

CacheMaxSize == 1

MaxClock == 3

MaxOverLimit == 1

(* TTLCache: the entries in the order of their last write, each with the   *)
(* time it expires at.                                                     *)
CacheEntry(key, value, expires) == [key |-> key, value |-> value, expires |-> expires]

(* expire(time): the entries whose time has not come.                      *)
CacheExpire(c, t) == SelectSeq(c, LAMBDA e : t < e.expires)

(* self.cache.get(key, default)                                            *)
CacheGet(c, key, t, default) ==
    LET hits == {i \in DOMAIN c : c[i].key = key /\ t < c[i].expires}
    IN IF hits = {} THEN default ELSE c[CHOOSE i \in hits : TRUE].value

(* self.cache[key] = value: the expired entries go; a new key in a full    *)
(* cache pushes out the entry written longest ago; the entry is written    *)
(* last, to expire ttl seconds from now.                                   *)
CacheSet(c, key, value, t) ==
    LET live == CacheExpire(c, t)
        others == SelectSeq(live, LAMBDA e : e.key # key)
        kept == IF Len(others) < Len(live) \/ Len(live) < CacheMaxSize THEN others
                ELSE SubSeq(live, Len(live) - CacheMaxSize + 2, Len(live))
    IN Append(kept, CacheEntry(key, value, t + RateLimitWindow))

(* A request as the middleware reads it: the path, the X-Forwarded-For and *)
(* X-Real-IP headers and the host of the connection (<<>> when absent).    *)
RateRequest(path, forwarded_for, real_ip, host) ==
    [path |-> path, forwarded_for |-> forwarded_for, real_ip |-> real_ip, host |-> host]

get_client_ip(request) ==
    IF Truthy(request.forwarded_for)
    THEN RStrip(LStrip(Split(request.forwarded_for, <<",">>)[1]))
    ELSE IF Truthy(request.real_ip) THEN request.real_ip
    ELSE IF Truthy(request.host) THEN request.host
    ELSE <<"u","n","k","n","o","w","n">>

(* The paths dispatch lets through without counting.                       *)
Exempt(path) ==
    \/ path \in {<<"/","h","e","a","l","t","h">>, <<"/","d","o","c","s">>, <<"/","r","e","d","o","c">>, <<"/","o","p","e","n","a","p","i",".","j","s","o","n">>}
    \/ StartsWith(path, <<"/","s","t","a","t","i","c","/">>)

(* _is_rate_limited: the cache after the call and the verdict.             *)
is_rate_limited(c, client_ip, current_time) ==
    LET got == CacheGet(c, client_ip, current_time, <<0, current_time>>)
        fresh == current_time - got[2] >= RateLimitWindow
        request_count == (IF fresh THEN 0 ELSE got[1]) + 1
        window_start == IF fresh THEN current_time ELSE got[2]
    IN [cache |-> CacheSet(c, client_ip, <<request_count, window_start>>, current_time),
        limited |-> request_count > RateLimitRequests]

(* _get_remaining_requests                                                 *)
get_remaining_requests(c, client_ip, t) ==
    LET request_count == CacheGet(c, client_ip, t, <<0, t>>)[1]
    IN IF RateLimitRequests - request_count > 0 THEN RateLimitRequests - request_count ELSE 0

RatePaths ==
    {<<"/","h","e","a","l","t","h">>, <<"/","d","o","c","s">>, <<"/","r","e","d","o","c">>, <<"/","o","p","e","n","a","p","i",".","j","s","o","n">>, <<"/","s","t","a","t","i","c","/","a",".","j","s">>, <<"/","s","t","a","t","i","c">>,
     <<"/","a","p","i","/","g","e","n","q","r">>}

RateRequests ==
    {RateRequest(p, f, r, h) :
        p \in RatePaths, f \in {<<>>, <<" ","b"," ",","," ","a">>}, r \in {<<>>, <<"b">>}, h \in {<<>>, <<"b">>}}

ClientIps == {get_client_ip(q) : q \in RateRequests}

(* What the middleware did with a request: the client address it counted  *)
(* the request under (<<>> when it did not look), the path, the verdict,   *)
(* the X-RateLimit-Remaining header and whether the cache changed.         *)
Served(key, path, verdict, remaining, changed) ==
    [key |-> key, path |-> path, verdict |-> verdict, remaining |-> remaining,
     changed |-> changed]

(* The windows as they are meant: per client address the requests counted  *)
(* in its window and the start of the window, no window having count 0.    *)
Counted(l, key, t) ==
    IF l[key][1] = 0 \/ t - l[key][2] >= RateLimitWindow
    THEN [l EXCEPT ![key] = <<1, t>>]
    ELSE [l EXCEPT ![key] = <<l[key][1] + 1, l[key][2]>>]

InitRate ==
    /\ cache = <<>>
    /\ clock = 0
    /\ ledger = [k \in ClientIps |-> <<0, 0>>]
    /\ served = Served(<<>>, <<>>, "none", 0, FALSE)
    /\ FlowIdle
    /\ UnitIdle
    /\ ConcIdle

(* dispatch on an exempt path.                                             *)
DispatchExempt ==
    /\ \E request \in RateRequests :
          /\ Exempt(request.path)
          /\ served' = Served(<<>>, request.path, "forwarded", 0, FALSE)
    /\ UNCHANGED <<cache, clock, ledger>>
    /\ UNCHANGED <<flowVars, unitVars, flows>>

(* dispatch on any other path.                                             *)
Dispatch ==
    /\ \E request \in RateRequests :
          LET client_ip == get_client_ip(request)
              checked == is_rate_limited(cache, client_ip, clock)
          IN /\ ~Exempt(request.path)
             /\ ledger[client_ip][1] < RateLimitRequests + MaxOverLimit
             /\ cache' = checked.cache
             /\ ledger' = Counted(ledger, client_ip, clock)
             /\ served' =
                   IF checked.limited
                   THEN Served(client_ip, request.path, "429", 0, checked.cache # cache)
                   ELSE Served(client_ip, request.path, "forwarded",
                               get_remaining_requests(checked.cache, client_ip, clock),
                               checked.cache # cache)
    /\ UNCHANGED clock
    /\ UNCHANGED <<flowVars, unitVars, flows>>

(* A second passes.                                                        *)
Tick ==
    /\ clock < MaxClock
    /\ clock' = clock + 1
    /\ UNCHANGED <<cache, ledger, served>>
    /\ UNCHANGED <<flowVars, unitVars, flows>>

NextRate ==
    \/ DispatchExempt
    \/ Dispatch
    \/ Tick

SpecRate == InitRate /\ [][NextRate]_vars

(* C21: per client address and window at most RATE_LIMIT_REQUESTS requests *)
(* are forwarded and every further one of the window is rejected with 429, *)
(* the rejected ones counting too; the first request at or after the end   *)
(* of the window starts a new window with count 1 and is forwarded; a      *)
(* request to /health, /docs, /redoc, /openapi.json or under /static/ is   *)
(* forwarded and changes no counter.                                       *)
C21_RateLimited ==
    /\ (served.verdict # "none" /\ Exempt(served.path)) =>
          (served.verdict = "forwarded" /\ ~served.changed)
    /\ (served.verdict # "none" /\ ~Exempt(served.path)) =>
          /\ served.verdict \in {"forwarded", "429"}
          /\ (served.verdict = "forwarded") = (ledger[served.key][1] <= RateLimitRequests)

====
